---- MODULE Spec2Model ----
(***************************************************************************)
(* Parking ledger of database_mejorado.py: active stays (table vehiculos), *)
(* completed visits (table historial), tariff rules (table tarifas), the   *)
(* duration and fee arithmetic, and the operations registrar_ingreso,      *)
(* registrar_salida, obtener_vehiculos_activos and obtener_historial.      *)
(*                                                                         *)
(* Conventions.  A text value (plate, vehicle class) is a sequence of      *)
(* one-character strings.  A date 'YYYY-MM-DD' is the triple <<y, m, d>>.  *)
(* A duration in hours with two decimals is an integer number of           *)
(* hundredths of an hour.  Money is an integer.                            *)
(***************************************************************************)
EXTENDS Integers, Sequences, FiniteSets, TLC

VARIABLES
    vehiculos,   \* committed rows of table vehiculos (active stays)
    historial,   \* committed rows of table historial, in insertion (id) order
    tarifas,     \* committed rows of table tarifas, in insertion (id) order
    ret,         \* what the last completed call gave back to its caller
    pc,          \* position of the stepwise registrar_salida call
    fila,        \* the row and arguments the stepwise call works on
    tx,          \* its uncommitted statements (the open transaction)
    call         \* last call of a pure function: name, arguments, outcome

vars == <<vehiculos, historial, tarifas, ret, pc, fila, tx, call>>

(***************************************************************************)
(* Bounds of the model.                                                    *)
(***************************************************************************)
MaxHist == 1         \* completed visits after which no further exit is recorded
MaxDuracion == 299   \* longest duration offered to calcular_valor, in hundredths
NumDurDates == 3     \* consecutive calendar dates offered to calcular_duracion
MaxVisitas == 2      \* rows of historial in the databases offered to the queries

(***************************************************************************)
(* Calendar arithmetic of datetime (proleptic Gregorian ordinals).         *)
(***************************************************************************)
IsLeap(y) == (y % 4 = 0) /\ ((y % 100 # 0) \/ (y % 400 = 0))

DaysInMonth(y, m) ==
    IF m = 2 THEN (IF IsLeap(y) THEN 29 ELSE 28)
    ELSE IF m \in {4, 6, 9, 11} THEN 30 ELSE 31

RECURSIVE DaysBeforeMonth(_, _)
DaysBeforeMonth(y, m) ==
    IF m = 1 THEN 0 ELSE DaysBeforeMonth(y, m - 1) + DaysInMonth(y, m - 1)

DaysBeforeYear(y) ==
    (y - 1) * 365 + ((y - 1) \div 4) - ((y - 1) \div 100) + ((y - 1) \div 400)

\* date.toordinal(): day number of <<y, m, d>>
ToOrdinal(f) == DaysBeforeYear(f[1]) + DaysBeforeMonth(f[1], f[2]) + f[3]

\* strptime(fecha, "%Y-%m-%d") accepts exactly the dates of the calendar
ValidDate(f) == /\ f[2] \in 1..12
                /\ f[3] \in 1..DaysInMonth(f[1], f[2])

\* datetime.combine(date, time(hour, minute)), as minutes since the epoch
Combine(f, h, mi) == ToOrdinal(f) * 1440 + h * 60 + mi

\* the calendar successor of a date (used to enumerate inputs only)
NextDay(f) ==
    IF f[3] < DaysInMonth(f[1], f[2]) THEN <<f[1], f[2], f[3] + 1>>
    ELSE IF f[2] < 12 THEN <<f[1], f[2] + 1, 1>>
    ELSE <<f[1] + 1, 1, 1>>

RECURSIVE AddDays(_, _)
AddDays(f, n) == IF n = 0 THEN f ELSE AddDays(NextDay(f), n - 1)

(***************************************************************************)
(* calcular_duracion                                                       *)
(***************************************************************************)
\* round(n / d) to the nearest integer, ties to even (d > 0)
RoundDiv(n, d) ==
    LET q == n \div d
        r == n % d
    IN  IF 2 * r < d THEN q
        ELSE IF 2 * r > d THEN q + 1
        ELSE IF q % 2 = 0 THEN q ELSE q + 1

\* datetime.replace(day = day + 1): defined only when the day exists
ReplaceDayOk(f) == f[3] + 1 <= DaysInMonth(f[1], f[2])

ReplaceDay(f) == <<f[1], f[2], f[3] + 1>>

\* the exit instant after the rollover test of lines 164-165
Salida(fe, he, me, fs, hs, ms) ==
    IF Combine(fs, hs, ms) < Combine(fe, he, me)
    THEN Combine(ReplaceDay(fs), hs, ms)
    ELSE Combine(fs, hs, ms)

HorasTrunc(segundos) == segundos \div 36

HorasUnDecimal(segundos) == RoundDiv(segundos, 360) * 10

\* round(total_seconds() / 3600, 2), in hundredths of an hour: the nearest
\* integer to segundos * 100 / 3600
Horas(segundos) == RoundDiv(segundos, 36)

\* outcome of calcular_duracion: a value, or the exception it raises
calcular_duracion(fe, he, me, fs, hs, ms) ==
    IF ~ValidDate(fe) \/ ~ValidDate(fs)
    THEN [ok |-> FALSE, exc |-> "ValueError"]
    ELSE IF Combine(fs, hs, ms) < Combine(fe, he, me) /\ ~ReplaceDayOk(fs)
    THEN [ok |-> FALSE, exc |-> "ValueError"]
    ELSE [ok |-> TRUE,
          val |-> Horas((Salida(fe, he, me, fs, hs, ms) - Combine(fe, he, me)) * 60)]

(***************************************************************************)
(* Text values.                                                            *)
(***************************************************************************)
Minusculas == <<"a", "b", "c", "d", "e", "f", "g", "h", "i", "j", "k", "l", "m",
                "n", "o", "p", "q", "r", "s", "t", "u", "v", "w", "x", "y", "z">>

Mayusculas == <<"A", "B", "C", "D", "E", "F", "G", "H", "I", "J", "K", "L", "M",
                "N", "O", "P", "Q", "R", "S", "T", "U", "V", "W", "X", "Y", "Z">>

\* the upper-case letter of each lower-case letter, and the converse
AMayuscula ==
    [c \in {Minusculas[i] : i \in 1..26} |->
        Mayusculas[CHOOSE i \in 1..26 : Minusculas[i] = c]]

AMinuscula ==
    [c \in {Mayusculas[i] : i \in 1..26} |->
        Minusculas[CHOOSE i \in 1..26 : Mayusculas[i] = c]]

UpperChar(c) == IF c \in DOMAIN AMayuscula THEN AMayuscula[c] ELSE c

LowerChar(c) == IF c \in DOMAIN AMinuscula THEN AMinuscula[c] ELSE c

\* str.capitalize(): first character upper-cased, the rest lower-cased
Capitalize(s) == [i \in 1..Len(s) |-> IF i = 1 THEN UpperChar(s[i]) ELSE LowerChar(s[i])]

Carro == <<"C", "a", "r", "r", "o">>
Moto == <<"M", "o", "t", "o">>

\* None, and likewise the empty text: both are false in a Python condition
None == <<>>

(***************************************************************************)
(* Table tarifas and obtener_tarifa                                        *)
(***************************************************************************)
Dias == <<"lunes", "martes", "miercoles", "jueves", "viernes", "sabado", "domingo">>

\* date.weekday(): 0 is Monday
Weekday(f) == (ToOrdinal(f) + 6) % 7

\* the two rows conectar() inserts into an empty table tarifas
TarifasPorDefecto ==
    << [tipo_vehiculo |-> Carro, dia_semana |-> "todos", hora_inicio |-> 0,
        hora_fin |-> 23, tarifa_hora |-> 5000, tarifa_fraccion |-> 1200, activo |-> 1],
       [tipo_vehiculo |-> Moto, dia_semana |-> "todos", hora_inicio |-> 0,
        hora_fin |-> 23, tarifa_hora |-> 3500, tarifa_fraccion |-> 900, activo |-> 1] >>

\* lines 88-101: an empty table tarifas receives the two default rows
SembrarTarifas(t) == IF Len(t) = 0 THEN TarifasPorDefecto ELSE t

\* the hardcoded pair of lines 223 and 228
TarifaFija(tipo) == IF tipo = Carro THEN <<5000, 1200>> ELSE <<3500, 900>>

\* a row of table tarifas (columns of lines 75-86, id left to the order)
Regla(tipo, dia, inicio, fin, th, tf, activo) ==
    [tipo_vehiculo |-> tipo, dia_semana |-> dia, hora_inicio |-> inicio,
     hora_fin |-> fin, tarifa_hora |-> th, tarifa_fraccion |-> tf, activo |-> activo]

TarifaCoincideHastaFin(r, tipo, dia, hora) ==
    /\ r.tipo_vehiculo = tipo
    /\ (r.dia_semana = dia \/ r.dia_semana = "todos")
    /\ r.hora_inicio <= hora
    /\ r.hora_fin > hora
    /\ r.activo = 1

\* WHERE clause of the query of obtener_tarifa
TarifaCoincide(r, tipo, dia, hora) ==
    /\ r.tipo_vehiculo = tipo
    /\ (r.dia_semana = dia \/ r.dia_semana = "todos")
    /\ r.hora_inicio <= hora
    /\ r.hora_fin >= hora
    /\ r.activo = 1

TarifaOrdenDeAlmacen(r, dia) == 0

\* ORDER BY CASE WHEN dia_semana = ? THEN 0 ELSE 1 END
TarifaOrden(r, dia) == IF r.dia_semana = dia THEN 0 ELSE 1

\* the rate pairs obtener_tarifa may return (LIMIT 1 leaves the choice among
\* rows of equal rank to the engine)
obtener_tarifa(t, tipo, fecha, hora) ==
    LET dia == Dias[Weekday(fecha) + 1]
        ms == {i \in 1..Len(t) : TarifaCoincide(t[i], tipo, dia, hora)}
        best == {i \in ms : \A j \in ms : TarifaOrden(t[i], dia) <= TarifaOrden(t[j], dia)}
    IN  IF ms = {} THEN {TarifaFija(tipo)}
        ELSE {<<t[i].tarifa_hora, t[i].tarifa_fraccion>> : i \in best}

\* table tarifas as the connection opened at line 197 leaves it; falla names
\* the statement of obtener_tarifa at which sqlite3 raises, "" for none
TarifasTrasResolver(t, falla) == IF falla = "conectar" THEN t ELSE SembrarTarifas(t)

ObtenerTarifaPropaga(t, tipo, fecha, hora, falla) ==
    IF falla = "conectar" THEN {[ok |-> FALSE, exc |-> "sqlite3.Error"]}
    ELSE IF ~ValidDate(fecha) THEN {[ok |-> FALSE, exc |-> "ValueError"]}
    ELSE IF falla = "execute" THEN {[ok |-> FALSE, exc |-> "sqlite3.Error"]}
    ELSE {[ok |-> TRUE, val |-> p] :
             p \in obtener_tarifa(SembrarTarifas(t), tipo, fecha, hora)}

\* the outcomes of a call of obtener_tarifa on committed table t: conectar()
\* (line 197), strptime (line 201, ValueError is not caught), the query
\* (lines 206-218), and the handler of sqlite3.Error (lines 225-228)
ObtenerTarifaResultado(t, tipo, fecha, hora, falla) ==
    IF falla = "conectar" THEN {[ok |-> TRUE, val |-> TarifaFija(tipo)]}
    ELSE IF ~ValidDate(fecha) THEN {[ok |-> FALSE, exc |-> "ValueError"]}
    ELSE IF falla = "execute" THEN {[ok |-> TRUE, val |-> TarifaFija(tipo)]}
    ELSE {[ok |-> TRUE, val |-> p] :
             p \in obtener_tarifa(SembrarTarifas(t), tipo, fecha, hora)}

(***************************************************************************)
(* calcular_valor                                                          *)
(***************************************************************************)
\* int(duracion_horas): truncation toward zero, duration in hundredths
HorasCompletas(dur) == IF dur >= 0 THEN dur \div 100 ELSE -((-dur) \div 100)

ValorFraccionSinLimite(fraccion, tarifa) ==
    IF fraccion > 0
    THEN IF fraccion < 25 THEN tarifa[2]
         ELSE IF fraccion < 50 THEN tarifa[2] * 2
         ELSE IF fraccion < 75 THEN tarifa[2] * 3
         ELSE tarifa[1]
    ELSE 0

\* lines 256-268: the charge for the fractional remainder (hundredths)
ValorFraccion(fraccion, tarifa) ==
    IF fraccion > 0
    THEN IF fraccion <= 25 THEN tarifa[2]
         ELSE IF fraccion <= 50 THEN tarifa[2] * 2
         ELSE IF fraccion <= 75 THEN tarifa[2] * 3
         ELSE tarifa[1]
    ELSE 0

calcular_valorHoraComoFraccion(tarifa, dur) ==
    HorasCompletas(dur) * tarifa[2]
        + ValorFraccion(dur - HorasCompletas(dur) * 100, tarifa)

\* the charge for a duration (hundredths of an hour) under a rate pair;
\* rates are whole numbers, so is the total, and round(total, 0) is the total
calcular_valor(tarifa, dur) ==
    HorasCompletas(dur) * tarifa[1]
        + ValorFraccion(dur - HorasCompletas(dur) * 100, tarifa)

\* line 280: the hourly rate of the simplified computation
TarifaSimplificada(tipo) ==
    IF tipo = Carro THEN 5000 ELSE IF tipo = Moto THEN 3500 ELSE 3000

\* line 281: rate * duracion_horas, neither banded nor rounded (the rates
\* are multiples of 100, so the product of hundredths is a whole number)
ValorSimplificado(tipo, dur) == (TarifaSimplificada(tipo) * dur) \div 100

CalcularValorSinTarifas(t, tipo, dur, fecha, hora, falla) ==
    {ValorSimplificado(tipo, dur)}

\* the values a call of calcular_valor may return: the banded charge under
\* the resolved pair, or the simplified one when the resolution raises
CalcularValorResultado(t, tipo, dur, fecha, hora, falla) ==
    {IF r.ok THEN calcular_valor(r.val, dur) ELSE ValorSimplificado(tipo, dur) :
        r \in ObtenerTarifaResultado(t, tipo, fecha, hora, falla)}

(***************************************************************************)
(* validar_placa                                                           *)
(***************************************************************************)
validar_placaDesdeSeis(placa) == ~(Len(placa) = 0 \/ Len(placa) < 6 \/ Len(placa) > 7)

\* line 297: not placa or len(placa) < 5 or len(placa) > 7
validar_placa(placa) == ~(Len(placa) = 0 \/ Len(placa) < 5 \/ Len(placa) > 7)

(***************************************************************************)
(* The store: tables vehiculos and historial behind sqlite3 connections.   *)
(* A database value is [v |-> rows of vehiculos, h |-> rows of historial]. *)
(***************************************************************************)
AplicarStmtSinWhere(db, s) ==
    IF s.k = "insert_v" THEN [db EXCEPT !.v = db.v \cup {s.row}]
    ELSE IF s.k = "insert_h"
    THEN [db EXCEPT !.h = Append(db.h, [s.row EXCEPT !.id = Len(db.h) + 1])]
    ELSE [db EXCEPT !.v = {}]

\* the effect of one statement on a database value
AplicarStmt(db, s) ==
    IF s.k = "insert_v" THEN [db EXCEPT !.v = db.v \cup {s.row}]
    ELSE IF s.k = "insert_h"
    THEN [db EXCEPT !.h = Append(db.h, [s.row EXCEPT !.id = Len(db.h) + 1])]
    ELSE [db EXCEPT !.v = {r \in db.v : r.placa # s.placa}]

RECURSIVE AplicarTodo(_, _)
AplicarTodo(db, pend) ==
    IF Len(pend) = 0 THEN db ELSE AplicarTodo(AplicarStmt(db, Head(pend)), Tail(pend))

EjecutarAutocommit(db, pend, s) == [db |-> AplicarStmt(db, s), tx |-> pend]

\* cursor.execute of an INSERT or DELETE: the statement joins the open
\* transaction of the connection and the committed database is untouched
Ejecutar(db, pend, s) == [db |-> db, tx |-> Append(pend, s)]

ConfirmarPrimero(db, pend) ==
    IF Len(pend) = 0 THEN db ELSE AplicarStmt(db, Head(pend))

\* conn.commit(): the statements of the transaction become visible together
Confirmar(db, pend) == AplicarTodo(db, pend)

FilasDePlacaNinguna(v, placa) == {}

FilasCualquiera(v, placa) == v

\* SELECT ... FROM vehiculos WHERE placa = ?
FilasDePlaca(v, placa) == {r \in v : r.placa = placa}

\* CURRENT_TIMESTAMP of a new historial row: the clock has one-second
\* resolution and does not run backwards
Relojes(h) ==
    IF Len(h) = 0 THEN {1}
    ELSE {h[Len(h)].fecha_registro, h[Len(h)].fecha_registro + 1}

conectarRecrea(db) == [v |-> db.v, h |-> <<>>, t |-> TarifasPorDefecto]

\* conectar(): CREATE TABLE IF NOT EXISTS keeps the rows of the three tables,
\* the default tariffs are inserted into an empty tarifas, and all of it is
\* committed.  A database value here also carries t, the rows of tarifas.
conectar(db) == [v |-> db.v, h |-> db.h, t |-> SembrarTarifas(db.t)]

\* the committed database
Base == [v |-> vehiculos, h |-> historial, t |-> tarifas]

(***************************************************************************)
(* Values handed back to the caller.                                       *)
(***************************************************************************)
\* a returned pair (success, message-or-payload); list-returning functions
\* are recorded with ok = TRUE and the list as data
Retorno(op, ok, msg, data) ==
    [op |-> op, raised |-> "", ok |-> ok, msg |-> msg, data |-> data]

\* an exception that leaves the function
Excepcion(op, exc) ==
    [op |-> op, raised |-> exc, ok |-> FALSE, msg |-> "", data |-> <<>>]

NoFila == [placa |-> <<>>]

NoCall == [fn |-> "", args |-> <<>>, done |-> FALSE, out |-> <<>>]

(***************************************************************************)
(* Inputs offered to the operations.                                       *)
(***************************************************************************)
\* the last two days of a month
Fechas == {<<2024, 1, 30>>, <<2024, 1, 31>>}

HorasEntrada == {<<23, 30>>}

HorasSalida == {<<0, 15>>}

Placas == { <<"A", "B", "C", "1", "2">>,
            <<"X", "Y", "Z", "9", "8", "7">>,
            <<"A", "B">> }

Tipos == { Carro, <<"m", "o", "t", "o">>, <<"B", "u", "s">> }

\* plate arguments as a caller of registrar_ingreso and registrar_salida may
\* spell them: two spellings of one plate, signs and blanks, and the lengths
\* 0, 4, 5, 7 and 8
PlacasEscritas == { <<"A", "B", "C", "1", "2">>,
                    <<"a", "b", "c", "1", "2">>,
                    <<" ", "?", "-", "*", "#">>,
                    <<"A", "B", "C", "1", "2", "3", "4">>,
                    <<"A", "B", "C", "1", "2", "3", "4", "5">>,
                    <<"A", "B", "C", "D">>,
                    <<>> }

Usuarios == {"sistema"}

\* a tariff table as an administrator may have configured it: the defaults
\* plus a Wednesday rule for cars
TarifasConfiguradas ==
    TarifasPorDefecto \o
    << [tipo_vehiculo |-> Carro, dia_semana |-> "miercoles", hora_inicio |-> 0,
        hora_fin |-> 23, tarifa_hora |-> 6000, tarifa_fraccion |-> 1500, activo |-> 1] >>

\* table tarifas of a database that no connection has opened yet
TarifasIniciales == {<<>>}

FiltrosPlaca == {None, <<"b", "c">>}

FiltrosFecha == {None, <<2024, 1, 31>>}

\* the statements of registrar_ingreso and of registrar_salida at which the
\* engine may fail, and what it reports
FallasIngreso == {"conectar", "select", "insert", "commit"}

FallasSalida == {"conectar", "select", "tarifa_conectar", "tarifa_execute",
                 "insert", "delete", "commit"}

Causas == {"database is locked", "disk I/O error"}

\* a Tuesday rule for cars at a reduced rate, office hours only
ReglaMartes == Regla(Carro, "martes", 8, 18, 3000, 750, 1)

\* tables offered to obtener_tarifa and calcular_valor: not yet seeded, the
\* defaults, a day rule stored after and before the "todos" rule of its
\* class, and a table whose only car rule is switched off
TablasTarifa ==
    { <<>>,
      TarifasPorDefecto,
      TarifasConfiguradas,
      TarifasPorDefecto \o <<ReglaMartes>>,
      <<ReglaMartes>> \o TarifasPorDefecto,
      << Regla(Carro, "todos", 0, 23, 4000, 1000, 0),
         Regla(Moto, "martes", 8, 18, 3000, 750, 1) >> }

\* a Tuesday, a Wednesday, and a text that is not a date of the calendar
TarFechas == {<<2024, 1, 30>>, <<2024, 1, 31>>, <<2024, 2, 30>>}

TarHoras == {7, 8, 18, 19}

ValHoras == {8, 19}

TarTipos == {Carro, Moto}

\* the statement of obtener_tarifa at which the engine fails, "" for none
FallasTarifa == {"", "conectar", "execute"}

ValDuraciones == 0..MaxDuracion

DurBases == {<<2023, 2, 27>>, <<2023, 12, 30>>, <<2024, 2, 28>>}

DurFechas == {AddDays(b, i) : b \in DurBases, i \in 0..(NumDurDates - 1)}

DurHorasEntrada == {<<0, 0>>, <<23, 30>>}

DurHorasSalida == {<<h, m>> : h \in {0, 10, 23}, m \in 0..59}

(***************************************************************************)
(* registrar_ingreso                                                       *)
(***************************************************************************)
MsgPlacaInvalida == "Formato de placa invalido"
MsgDuplicada == "La placa ya esta registrada en el parqueadero"
MsgTipoInvalido == "Tipo de vehiculo invalido"
MsgNoEncontrado == "Vehiculo no encontrado en el parqueadero"
MsgIngresoOk == "Ingreso registrado correctamente"
MsgBloqueada == "Error en la base de datos: database is locked"
MsgClave == "Error en la base de datos: UNIQUE constraint failed: vehiculos.placa"
MsgCheck == "Error en la base de datos: CHECK constraint failed: tipo"
MsgDisco == "Error en la base de datos: disk I/O error"

\* lines 360 and 442: the message built from a sqlite3.Error
MsgErrorBD(causa) == IF causa = "database is locked" THEN MsgBloqueada ELSE MsgDisco

DescartarConfirmando(db, pend) == AplicarTodo(db, pend)

\* a connection that goes away without commit(): its open transaction is
\* rolled back and the committed database stays as it is
Descartar(db, pend) == db

\* CHECK (tipo IN ('Carro', 'Moto')) of table vehiculos (line 46)
TipoPermitido(tipo) == tipo \in {Carro, Moto}

ErrorIngresoTipoPrimero(v, placa, tipo) ==
    IF Capitalize(tipo) \notin {Carro, Moto} THEN MsgTipoInvalido
    ELSE IF FilasDePlaca(v, placa) # {} THEN MsgDuplicada
    ELSE ""

ErrorIngresoSinTipo(v, placa, tipo) ==
    IF FilasDePlaca(v, placa) # {} THEN MsgDuplicada ELSE ""

\* lines 335-347: the checks made after connecting, in their order; "" when
\* all pass
ErrorIngreso(v, placa, tipo) ==
    IF FilasDePlaca(v, placa) # {} THEN MsgDuplicada
    ELSE IF Capitalize(tipo) \notin {Carro, Moto} THEN MsgTipoInvalido
    ELSE ""

\* PRIMARY KEY of vehiculos (line 44): an INSERT of a present key fails
ClaveLibre(v, placa) == FilasDePlaca(v, placa) = {}

\* the whole call; falla names the statement at which sqlite3 raises causa,
\* "" for a call that meets no failure of the engine
RegistrarIngresoCon(placa, fecha, hora, minuto, tipo, usuario, falla, causa) ==
    LET op == "registrar_ingreso"
        c == conectar(Base)
        row == [placa |-> placa, fecha_entrada |-> fecha, hora_entrada |-> hora,
                minuto_entrada |-> minuto, tipo |-> Capitalize(tipo),
                usuario |-> usuario]
        e == Ejecutar(c, <<>>, [k |-> "insert_v", row |-> row])
        fin == Confirmar(e.db, e.tx)
    IN
    /\ UNCHANGED <<pc, fila, tx, call>>
    /\ IF ~validar_placa(placa)
       THEN /\ ret' = Retorno(op, FALSE, MsgPlacaInvalida, <<>>)
            /\ UNCHANGED <<vehiculos, historial, tarifas>>
       ELSE IF falla = "conectar"
       THEN /\ ret' = Retorno(op, FALSE, MsgErrorBD(causa), <<>>)
            /\ UNCHANGED <<vehiculos, historial, tarifas>>
       ELSE IF falla = "select"
       THEN /\ ret' = Retorno(op, FALSE, MsgErrorBD(causa), <<>>)
            /\ vehiculos' = c.v /\ historial' = c.h /\ tarifas' = c.t
       ELSE IF ErrorIngreso(c.v, placa, tipo) # ""
       THEN /\ ret' = Retorno(op, FALSE, ErrorIngreso(c.v, placa, tipo), <<>>)
            /\ vehiculos' = c.v /\ historial' = c.h /\ tarifas' = c.t
       ELSE IF falla = "insert"
       THEN /\ ret' = Retorno(op, FALSE, MsgErrorBD(causa), <<>>)
            /\ vehiculos' = Descartar(c, <<>>).v
            /\ historial' = Descartar(c, <<>>).h
            /\ tarifas' = Descartar(c, <<>>).t
       ELSE IF Len(tx) > 0
       THEN \* another connection holds the write lock: the INSERT fails
            /\ ret' = Retorno(op, FALSE, MsgBloqueada, <<>>)
            /\ vehiculos' = c.v /\ historial' = c.h /\ tarifas' = c.t
       ELSE IF ~ClaveLibre(c.v, placa)
       THEN /\ ret' = Retorno(op, FALSE, MsgClave, <<>>)
            /\ vehiculos' = c.v /\ historial' = c.h /\ tarifas' = c.t
       ELSE IF ~TipoPermitido(row.tipo)
       THEN /\ ret' = Retorno(op, FALSE, MsgCheck, <<>>)
            /\ vehiculos' = c.v /\ historial' = c.h /\ tarifas' = c.t
       ELSE IF falla = "commit"
       THEN /\ ret' = Retorno(op, FALSE, MsgErrorBD(causa), <<>>)
            /\ vehiculos' = Descartar(e.db, e.tx).v
            /\ historial' = Descartar(e.db, e.tx).h
            /\ tarifas' = Descartar(e.db, e.tx).t
       ELSE /\ vehiculos' = fin.v /\ historial' = fin.h /\ tarifas' = fin.t
            /\ ret' = Retorno(op, TRUE, MsgIngresoOk, <<>>)

\* a call that meets no failure of the engine
RegistrarIngreso(placa, fecha, hora, minuto, tipo, usuario) ==
    RegistrarIngresoCon(placa, fecha, hora, minuto, tipo, usuario, "", "")

(***************************************************************************)
(* registrar_salida                                                       *)
(***************************************************************************)
\* the row of the INSERT INTO historial (the engine assigns id)
FilaHistorial(placa, f, fs, hs, ms, dur, valor, usuario, reg) ==
    [id |-> 0, placa |-> placa, tipo |-> f.tipo,
     fecha_entrada |-> f.fecha_entrada, hora_entrada |-> f.hora_entrada,
     minuto_entrada |-> f.minuto_entrada,
     fecha_salida |-> fs, hora_salida |-> hs, minuto_salida |-> ms,
     duracion_horas |-> dur, valor_pagado |-> valor,
     usuario_registro |-> usuario, fecha_registro |-> reg]

DatosSalidaRodada(f, fs, hs, ms, dur, valor) ==
    [duracion |-> dur, valor |-> valor, tipo |-> f.tipo,
     entrada |-> <<f.fecha_entrada, f.hora_entrada, f.minuto_entrada>>,
     salida |-> <<IF Combine(fs, hs, ms) <
                       Combine(f.fecha_entrada, f.hora_entrada, f.minuto_entrada)
                  THEN NextDay(fs) ELSE fs, hs, ms>>]

\* the dictionary returned on success
DatosSalida(f, fs, hs, ms, dur, valor) ==
    [duracion |-> dur, valor |-> valor, tipo |-> f.tipo,
     entrada |-> <<f.fecha_entrada, f.hora_entrada, f.minuto_entrada>>,
     salida |-> <<fs, hs, ms>>]

ValorDeSalidaSegunSalida(t, f, dur, fs, hs, falla) ==
    CalcularValorResultado(t, f.tipo, dur, fs, hs, falla)

\* line 412: the charge of the stay of active row f, computed from its
\* class and its entry date and hour
ValorDeSalida(t, f, dur, fs, hs, falla) ==
    CalcularValorResultado(t, f.tipo, dur, f.fecha_entrada, f.hora_entrada, falla)

\* the failure met by the obtener_tarifa called from registrar_salida
FallaDeTarifa(falla) ==
    IF falla = "tarifa_conectar" THEN "conectar"
    ELSE IF falla = "tarifa_execute" THEN "execute"
    ELSE ""

\* the whole call, run with no other connection active; falla names the
\* statement at which sqlite3 raises causa, "" for a call that meets no
\* failure of the engine
SalidaCompleta(placa, fs, hs, ms, usuario, falla, causa) ==
    LET op == "registrar_salida"
        c == conectar(Base)
        filas == FilasDePlaca(c.v, placa)
    IN
    /\ UNCHANGED <<pc, fila, tx, call>>
    /\ IF falla = "conectar"
       THEN /\ ret' = Retorno(op, FALSE, MsgErrorBD(causa), <<>>)
            /\ UNCHANGED <<vehiculos, historial, tarifas>>
       ELSE IF falla = "select"
       THEN /\ ret' = Retorno(op, FALSE, MsgErrorBD(causa), <<>>)
            /\ vehiculos' = c.v /\ historial' = c.h /\ tarifas' = c.t
       ELSE IF filas = {}
       THEN /\ ret' = Retorno(op, FALSE, MsgNoEncontrado, <<>>)
            /\ vehiculos' = c.v /\ historial' = c.h /\ tarifas' = c.t
       ELSE \E f \in {g \in filas : Len(c.h) < MaxHist} :
            LET d == calcular_duracion(f.fecha_entrada, f.hora_entrada,
                                       f.minuto_entrada, fs, hs, ms)
            IN  IF ~d.ok
                THEN /\ ret' = Excepcion(op, d.exc)
                     /\ vehiculos' = c.v /\ historial' = c.h /\ tarifas' = c.t
                ELSE \E valor \in ValorDeSalida(c.t, f, d.val, fs, hs,
                                                 FallaDeTarifa(falla)),
                        reg \in Relojes(c.h) :
                     LET row == FilaHistorial(placa, f, fs, hs, ms, d.val, valor,
                                              usuario, reg)
                         e1 == Ejecutar(c, <<>>, [k |-> "insert_h", row |-> row])
                         e2 == Ejecutar(e1.db, e1.tx, [k |-> "delete_v", placa |-> placa])
                         fin == Confirmar(e2.db, e2.tx)
                         roto == IF falla = "insert" THEN Descartar(c, <<>>)
                                 ELSE IF falla = "delete" THEN Descartar(e1.db, e1.tx)
                                 ELSE Descartar(e2.db, e2.tx)
                     IN  IF falla \in {"insert", "delete", "commit"}
                         THEN /\ vehiculos' = roto.v
                              /\ historial' = roto.h
                              /\ tarifas' = roto.t
                              /\ ret' = Retorno(op, FALSE, MsgErrorBD(causa), <<>>)
                         ELSE /\ vehiculos' = fin.v
                              /\ historial' = fin.h
                              /\ tarifas' = fin.t
                              /\ ret' = Retorno(op, TRUE, "",
                                                DatosSalida(f, fs, hs, ms, d.val, valor))

\* the call made while no other call of registrar_salida is under way
RegistrarSalidaCon(placa, fs, hs, ms, usuario, falla, causa) ==
    /\ pc = "idle"
    /\ SalidaCompleta(placa, fs, hs, ms, usuario, falla, causa)

\* a call that meets no failure of the engine
RegistrarSalida(placa, fs, hs, ms, usuario) ==
    RegistrarSalidaCon(placa, fs, hs, ms, usuario, "", "")

(***************************************************************************)
(* registrar_salida, statement by statement, while other connections read  *)
(* and write the committed database.                                       *)
(***************************************************************************)
\* lines 387-412: connect, read the active row, compute duration and charge
SalidaSelect(placa, fs, hs, ms, usuario) ==
    LET op == "registrar_salida"
        c == conectar(Base)
        filas == FilasDePlaca(c.v, placa)
    IN
    /\ pc = "idle"
    /\ UNCHANGED <<tx, call>>
    /\ vehiculos' = c.v /\ historial' = c.h /\ tarifas' = c.t
    /\ IF filas = {}
       THEN /\ ret' = Retorno(op, FALSE, MsgNoEncontrado, <<>>)
            /\ UNCHANGED <<pc, fila>>
       ELSE \E f \in {g \in filas : Len(c.h) < MaxHist} :
            LET d == calcular_duracion(f.fecha_entrada, f.hora_entrada,
                                       f.minuto_entrada, fs, hs, ms)
            IN  IF ~d.ok
                THEN /\ ret' = Excepcion(op, d.exc)
                     /\ UNCHANGED <<pc, fila>>
                ELSE \E valor \in ValorDeSalida(c.t, f, d.val, fs, hs, "") :
                     /\ pc' = "calculado"
                     /\ fila' = [placa |-> placa, f |-> f, fs |-> fs, hs |-> hs,
                                 ms |-> ms, dur |-> d.val, valor |-> valor,
                                 usuario |-> usuario, hlen |-> Len(c.h)]
                     /\ UNCHANGED ret

\* lines 415-424: INSERT INTO historial
SalidaInsert ==
    /\ pc = "calculado"
    /\ \E reg \in Relojes(historial) :
       LET row == FilaHistorial(fila.placa, fila.f, fila.fs, fila.hs, fila.ms,
                                fila.dur, fila.valor, fila.usuario, reg)
           e == Ejecutar(Base, tx, [k |-> "insert_h", row |-> row])
       IN  /\ vehiculos' = e.db.v
           /\ historial' = e.db.h
           /\ tarifas' = e.db.t
           /\ tx' = e.tx
    /\ pc' = "insertado"
    /\ UNCHANGED <<ret, fila, call>>

\* line 427: DELETE FROM vehiculos
SalidaDelete ==
    /\ pc = "insertado"
    /\ LET e == Ejecutar(Base, tx, [k |-> "delete_v", placa |-> fila.placa])
       IN  /\ vehiculos' = e.db.v
           /\ historial' = e.db.h
           /\ tarifas' = e.db.t
           /\ tx' = e.tx
    /\ pc' = "borrado"
    /\ UNCHANGED <<ret, fila, call>>

\* line 428: conn.commit()
SalidaCommit ==
    /\ pc = "borrado"
    /\ LET fin == Confirmar(Base, tx)
       IN  /\ vehiculos' = fin.v
           /\ historial' = fin.h
           /\ tarifas' = fin.t
    /\ tx' = <<>>
    /\ pc' = "confirmado"
    /\ UNCHANGED <<ret, fila, call>>

\* lines 431-437: return
SalidaReturn ==
    /\ pc = "confirmado"
    /\ ret' = Retorno("registrar_salida", TRUE, "",
                      DatosSalida(fila.f, fila.fs, fila.hs, fila.ms, fila.dur,
                                  fila.valor))
    /\ pc' = "idle"
    /\ fila' = NoFila
    /\ UNCHANGED <<vehiculos, historial, tarifas, tx, call>>

\* a whole registrar_salida of a second connection, run after the first
\* connection has read its active row (lines 391-395) and before it writes
\* (lines 415-428); a connection that has only read holds no lock
SalidaDeOtro(placa, fs, hs, ms, usuario) ==
    /\ pc = "calculado"
    /\ Len(tx) = 0
    /\ SalidaCompleta(placa, fs, hs, ms, usuario, "", "")

(***************************************************************************)
(* obtener_vehiculos_activos and obtener_historial                         *)
(***************************************************************************)
\* comparison of two 'YYYY-MM-DD' texts
FechaLeq(a, b) ==
    \/ a[1] < b[1]
    \/ a[1] = b[1] /\ a[2] < b[2]
    \/ a[1] = b[1] /\ a[2] = b[2] /\ a[3] <= b[3]

EntradaLeqSoloFecha(a, b) == FechaLeq(a.fecha_entrada, b.fecha_entrada)

\* ORDER BY fecha_entrada, hora_entrada, minuto_entrada
EntradaLeq(a, b) ==
    \/ a.fecha_entrada # b.fecha_entrada /\ FechaLeq(a.fecha_entrada, b.fecha_entrada)
    \/ a.fecha_entrada = b.fecha_entrada /\ a.hora_entrada < b.hora_entrada
    \/ /\ a.fecha_entrada = b.fecha_entrada
       /\ a.hora_entrada = b.hora_entrada
       /\ a.minuto_entrada <= b.minuto_entrada

\* the sequences that list every row of S once
Permutaciones(S) ==
    {q \in [1..Cardinality(S) -> S] :
        \A i, j \in 1..Cardinality(S) : i # j => q[i] # q[j]}

\* the orders in which the engine may deliver the rows of S under the
\* ORDER BY of obtener_vehiculos_activos (rows of equal rank in any order)
ActivosOrdenados(S) ==
    {q \in Permutaciones(S) :
        \A i, j \in 1..Cardinality(S) : i < j => EntradaLeq(q[i], q[j])}

ObtenerVehiculosActivos ==
    /\ vehiculos' = conectar(Base).v
    /\ historial' = conectar(Base).h
    /\ tarifas' = conectar(Base).t
    /\ \E q \in ActivosOrdenados(conectar(Base).v) :
          ret' = Retorno("obtener_vehiculos_activos", TRUE, "",
                   [i \in 1..Len(q) |->
                       <<q[i].placa, q[i].tipo, q[i].fecha_entrada,
                         q[i].hora_entrada, q[i].minuto_entrada>>])
    /\ UNCHANGED <<pc, fila, tx, call>>

\* the SQL operator LIKE: % any run, _ any character, letters without case
RECURSIVE Like(_, _)
Like(p, s) ==
    IF Len(p) = 0 THEN Len(s) = 0
    ELSE IF Head(p) = "%"
    THEN Like(Tail(p), s) \/ (Len(s) > 0 /\ Like(p, Tail(s)))
    ELSE /\ Len(s) > 0
         /\ (Head(p) = "_" \/ UpperChar(Head(p)) = UpperChar(Head(s)))
         /\ Like(Tail(p), Tail(s))

\* WHERE clause built by obtener_historial
HistorialCoincide(r, fp, ft, fi, ff) ==
    /\ (Len(fp) > 0 => Like(<<"%">> \o fp \o <<"%">>, r.placa))
    /\ (Len(ft) > 0 => r.tipo = ft)
    /\ (Len(fi) > 0 => FechaLeq(fi, r.fecha_entrada))
    /\ (Len(ff) > 0 => FechaLeq(r.fecha_entrada, ff))

\* ORDER BY fecha_registro DESC
RegistroGeq(a, b) == a.fecha_registro >= b.fecha_registro

\* the orders in which the engine may deliver the rows of S under the
\* ORDER BY of obtener_historial (rows of equal rank in any order)
HistorialOrdenado(S) ==
    {q \in Permutaciones(S) :
        \A i, j \in 1..Cardinality(S) : i < j => RegistroGeq(q[i], q[j])}

ObtenerHistorial(fp, ft, fi, ff) ==
    LET c == conectar(Base)
        sel == {c.h[i] : i \in {j \in 1..Len(c.h) :
                                  HistorialCoincide(c.h[j], fp, ft, fi, ff)}}
    IN
    /\ vehiculos' = c.v
    /\ historial' = c.h
    /\ tarifas' = c.t
    /\ \E q \in HistorialOrdenado(sel) :
          ret' = Retorno("obtener_historial", TRUE, "",
                   [i \in 1..Len(q) |->
                       <<q[i].placa, q[i].tipo, q[i].fecha_entrada, q[i].hora_entrada,
                         q[i].minuto_entrada, q[i].fecha_salida, q[i].hora_salida,
                         q[i].minuto_salida, q[i].duracion_horas, q[i].valor_pagado>>])
    /\ UNCHANGED <<pc, fila, tx, call>>

(***************************************************************************)
(* A call of calcular_duracion on its own.                                 *)
(***************************************************************************)
CalcularDuracion ==
    /\ call.fn = "calcular_duracion"
    /\ ~call.done
    /\ call' = [call EXCEPT
                  !.done = TRUE,
                  !.out = calcular_duracion(call.args[1], call.args[2], call.args[3],
                                            call.args[4], call.args[5], call.args[6])]
    /\ UNCHANGED <<vehiculos, historial, tarifas, ret, pc, fila, tx>>

(***************************************************************************)
(* Calls of obtener_tarifa and calcular_valor on their own.  The arguments *)
(* are <<tipo, duracion, fecha, hora, falla>>.                             *)
(***************************************************************************)
ObtenerTarifa ==
    /\ call.fn = "obtener_tarifa"
    /\ ~call.done
    /\ \E r \in ObtenerTarifaResultado(tarifas, call.args[1], call.args[3],
                                        call.args[4], call.args[5]) :
          call' = [call EXCEPT !.done = TRUE, !.out = r]
    /\ tarifas' = TarifasTrasResolver(tarifas, call.args[5])
    /\ UNCHANGED <<vehiculos, historial, ret, pc, fila, tx>>

CalcularValor ==
    /\ call.fn = "calcular_valor"
    /\ ~call.done
    /\ \E v \in CalcularValorResultado(tarifas, call.args[1], call.args[2],
                                        call.args[3], call.args[4], call.args[5]) :
          call' = [call EXCEPT !.done = TRUE, !.out = [ok |-> TRUE, val |-> v]]
    /\ tarifas' = TarifasTrasResolver(tarifas, call.args[5])
    /\ UNCHANGED <<vehiculos, historial, ret, pc, fila, tx>>

(***************************************************************************)
(* Duration and charge of a stay as registrar_salida computes them (lines  *)
(* 407-412).  The arguments are <<fecha_entrada, hora_entrada,             *)
(* minuto_entrada, fecha_salida, hora_salida, minuto_salida, tipo>>.       *)
(***************************************************************************)
CobrarEstancia ==
    /\ call.fn = "cobro_de_estancia"
    /\ ~call.done
    /\ LET d == calcular_duracion(call.args[1], call.args[2], call.args[3],
                                  call.args[4], call.args[5], call.args[6])
       IN  IF ~d.ok
           THEN /\ call' = [call EXCEPT !.done = TRUE, !.out = d]
                /\ UNCHANGED tarifas
           ELSE /\ \E v \in CalcularValorResultado(tarifas, call.args[7], d.val,
                                                   call.args[1], call.args[2], "") :
                      call' = [call EXCEPT
                                 !.done = TRUE,
                                 !.out = [ok |-> TRUE, dur |-> d.val, val |-> v]]
                /\ tarifas' = TarifasTrasResolver(tarifas, "")
    /\ UNCHANGED <<vehiculos, historial, ret, pc, fila, tx>>

(***************************************************************************)
(* Specifications.                                                         *)
(***************************************************************************)
Init ==
    /\ vehiculos = {}
    /\ historial = <<>>
    /\ tarifas \in TarifasIniciales
    /\ ret = Retorno("", TRUE, "", <<>>)
    /\ pc = "idle"
    /\ fila = NoFila
    /\ tx = <<>>
    /\ call = NoCall

Ingresos ==
    \E placa \in Placas, fecha \in Fechas, hm \in HorasEntrada,
       tipo \in Tipos, usuario \in Usuarios :
        RegistrarIngreso(placa, fecha, hm[1], hm[2], tipo, usuario)

Salidas ==
    \E placa \in Placas, fecha \in Fechas, hm \in HorasSalida, usuario \in Usuarios :
        RegistrarSalida(placa, fecha, hm[1], hm[2], usuario)

Consultas ==
    \E fp \in FiltrosPlaca, fi \in FiltrosFecha : ObtenerHistorial(fp, None, fi, None)

\* the ledger driven by one caller, one call at a time
Next ==
    \/ Ingresos
    \/ Salidas
    \/ ObtenerVehiculosActivos
    \/ Consultas

Spec == Init /\ [][Next]_vars

SalidasPorPasos ==
    \E placa \in Placas, fecha \in Fechas, hm \in HorasSalida, usuario \in Usuarios :
        SalidaSelect(placa, fecha, hm[1], hm[2], usuario)

\* one registrar_salida in steps, other connections opening stays and reading
NextTx ==
    \/ SalidasPorPasos
    \/ SalidaInsert
    \/ SalidaDelete
    \/ SalidaCommit
    \/ SalidaReturn
    \/ Ingresos
    \/ ObtenerVehiculosActivos

SpecTx == Init /\ [][NextTx]_vars

\* the arguments of a pending call of calcular_duracion
InitDur ==
    /\ vehiculos = {}
    /\ historial = <<>>
    /\ tarifas = <<>>
    /\ ret = Retorno("", TRUE, "", <<>>)
    /\ pc = "idle"
    /\ fila = NoFila
    /\ tx = <<>>
    /\ call \in {[fn |-> "calcular_duracion",
                   args |-> <<fe, te[1], te[2], fs, ts[1], ts[2]>>,
                   done |-> FALSE, out |-> <<>>] :
                    fe \in DurFechas, te \in DurHorasEntrada,
                    fs \in DurFechas, ts \in DurHorasSalida}

\* calcular_duracion applied to every offered pair of instants
NextDur == CalcularDuracion

SpecDur == InitDur /\ [][NextDur]_vars

\* the ledger over a table of tariffs an administrator has configured
InitCfg ==
    /\ vehiculos = {}
    /\ historial = <<>>
    /\ tarifas = TarifasConfiguradas
    /\ ret = Retorno("", TRUE, "", <<>>)
    /\ pc = "idle"
    /\ fila = NoFila
    /\ tx = <<>>
    /\ call = NoCall

SpecCfg == InitCfg /\ [][Next]_vars

IngresosFallidos ==
    \E placa \in Placas, fecha \in Fechas, hm \in HorasEntrada, tipo \in Tipos,
       usuario \in Usuarios, falla \in FallasIngreso, causa \in Causas :
        RegistrarIngresoCon(placa, fecha, hm[1], hm[2], tipo, usuario, falla, causa)

SalidasFallidas ==
    \E placa \in Placas, fecha \in Fechas, hm \in HorasSalida, usuario \in Usuarios,
       falla \in FallasSalida, causa \in Causas :
        RegistrarSalidaCon(placa, fecha, hm[1], hm[2], usuario, falla, causa)

\* the ledger while the engine may fail at any statement of a call
NextFalla ==
    \/ Ingresos
    \/ Salidas
    \/ IngresosFallidos
    \/ SalidasFallidas

SpecFalla == Init /\ [][NextFalla]_vars

\* a pending call of obtener_tarifa or calcular_valor and the table it finds
InitVal ==
    /\ vehiculos = {}
    /\ historial = <<>>
    /\ tarifas \in TablasTarifa
    /\ ret = Retorno("", TRUE, "", <<>>)
    /\ pc = "idle"
    /\ fila = NoFila
    /\ tx = <<>>
    /\ call \in
          {[fn |-> "obtener_tarifa", args |-> <<tipo, 0, fecha, hora, falla>>,
            done |-> FALSE, out |-> <<>>] :
              tipo \in TarTipos, fecha \in TarFechas, hora \in TarHoras,
              falla \in FallasTarifa}
          \cup
          {[fn |-> "calcular_valor", args |-> <<tipo, dur, fecha, hora, falla>>,
            done |-> FALSE, out |-> <<>>] :
              tipo \in TarTipos, dur \in ValDuraciones, fecha \in TarFechas,
              hora \in ValHoras, falla \in FallasTarifa}

NextVal == ObtenerTarifa \/ CalcularValor

SpecVal == InitVal /\ [][NextVal]_vars

\* plates, entry instants and entry dates of the rows found by the queries
ConsPlacas == { <<"A", "B", "C", "1", "2">>,
                <<"X", "Y", "Z", "9", "8", "7">>,
                <<"M", "N", "O", "3", "4">> }

ConsEntradas == { <<<<2024, 1, 30>>, 9, 30>>,
                  <<<<2024, 1, 30>>, 10, 5>>,
                  <<<<2024, 1, 31>>, 9, 5>> }

ConsFechas == { <<2024, 1, 29>>, <<2024, 1, 30>>, <<2024, 1, 31>>, <<2024, 2, 1>> }

\* the filters of obtener_historial: a part of a plate as stored, the same
\* in small letters, and one with the sign _
ConsFiltrosPlaca == { None, <<"C", "1">>, <<"b", "c">>, <<"B", "_", "1">> }

ConsFiltrosInicio == { None, <<2024, 1, 30>> }

ConsFiltrosFin == { None, <<2024, 1, 31>> }

\* lines 350-353: the row of vehiculos left by an entry at instant e
EstanciaDe(placa, e) ==
    [placa |-> placa, fecha_entrada |-> e[1], hora_entrada |-> e[2],
     minuto_entrada |-> e[3], tipo |-> Carro, usuario |-> "sistema"]

\* lines 407-424: the row of historial left by the exit, at 00:15 of the
\* next day, of a stay begun at 23:30 of fe
VisitaDe(placa, fe, reg) ==
    LET f == EstanciaDe(placa, <<fe, 23, 30>>)
        fs == NextDay(fe)
        dur == calcular_duracion(fe, 23, 30, fs, 0, 15).val
        valor == CHOOSE v \in ValorDeSalida(TarifasPorDefecto, f, dur, fs, 0, "") : TRUE
    IN  FilaHistorial(placa, f, fs, 0, 15, dur, valor, "sistema", reg)

\* the tables historial of at most n rows that exits can have written
RECURSIVE Historias(_)
Historias(n) ==
    IF n = 0 THEN {<<>>}
    ELSE Historias(n - 1) \cup
         UNION { { AplicarStmt([v |-> {}, h |-> h, t |-> TarifasPorDefecto],
                               [k |-> "insert_h", row |-> VisitaDe(placa, fe, reg)]).h :
                      placa \in ConsPlacas, fe \in ConsFechas, reg \in Relojes(h) } :
                 h \in {x \in Historias(n - 1) : Len(x) = n - 1} }

\* the tables vehiculos that entries can have written: one row a plate
Estacionados ==
    UNION { { {EstanciaDe(placa, e[placa]) : placa \in S} : e \in [S -> ConsEntradas] } :
            S \in SUBSET ConsPlacas }

\* a database with stays inside, or one with completed visits
InitConsulta ==
    /\ \/ vehiculos \in Estacionados /\ historial = <<>>
       \/ vehiculos = {} /\ historial \in Historias(MaxVisitas)
    /\ tarifas = TarifasPorDefecto
    /\ ret = Retorno("", TRUE, "", <<>>)
    /\ pc = "idle"
    /\ fila = NoFila
    /\ tx = <<>>
    /\ call = NoCall

ConsultasHistorial ==
    \E fp \in ConsFiltrosPlaca, fi \in ConsFiltrosInicio, ff \in ConsFiltrosFin :
        ObtenerHistorial(fp, None, fi, ff)

\* the two queries over a database that no call is changing
NextConsulta == ObtenerVehiculosActivos \/ ConsultasHistorial

SpecConsulta == InitConsulta /\ [][NextConsulta]_vars

\* a stay to be charged over the seeded tariffs
InitCobro ==
    /\ vehiculos = {}
    /\ historial = <<>>
    /\ tarifas = TarifasPorDefecto
    /\ ret = Retorno("", TRUE, "", <<>>)
    /\ pc = "idle"
    /\ fila = NoFila
    /\ tx = <<>>
    /\ call \in {[fn |-> "cobro_de_estancia",
                   args |-> <<fe, te[1], te[2], fs, ts[1], ts[2], tipo>>,
                   done |-> FALSE, out |-> <<>>] :
                    fe \in DurFechas, te \in DurHorasEntrada,
                    fs \in DurFechas, ts \in DurHorasSalida, tipo \in TarTipos}

NextCobro == CobrarEstancia

SpecCobro == InitCobro /\ [][NextCobro]_vars

SalidasDeOtro ==
    \E placa \in Placas, fecha \in Fechas, hm \in HorasSalida, usuario \in Usuarios :
        SalidaDeOtro(placa, fecha, hm[1], hm[2], usuario)

\* two connections closing stays: one registrar_salida in steps, and whole
\* calls of a second connection between its read and its writes
NextDos ==
    \/ SalidasPorPasos
    \/ SalidaInsert
    \/ SalidaDelete
    \/ SalidaCommit
    \/ SalidaReturn
    \/ Ingresos
    \/ SalidasDeOtro

SpecDos == Init /\ [][NextDos]_vars

\* the dates of the entries and of the exits called with written plates
EscFechasEntrada == {<<2024, 1, 30>>}

EscFechasSalida == {<<2024, 1, 31>>}

IngresosEscritos ==
    \E placa \in PlacasEscritas, fecha \in EscFechasEntrada, hm \in HorasEntrada,
       usuario \in Usuarios :
        RegistrarIngreso(placa, fecha, hm[1], hm[2], Carro, usuario)

SalidasEscritas ==
    \E placa \in PlacasEscritas, fecha \in EscFechasSalida, hm \in HorasSalida,
       usuario \in Usuarios :
        RegistrarSalida(placa, fecha, hm[1], hm[2], usuario)

\* the ledger called with plates in any spelling
NextPlaca == IngresosEscritos \/ SalidasEscritas

SpecPlaca == Init /\ [][NextPlaca]_vars

(***************************************************************************)
(* Properties.                                                             *)
(***************************************************************************)
\* the plate has an active stay in the committed table
TieneActivo(placa) == \E r \in vehiculos : r.placa = placa

\* historial' is historial with exactly one row appended
UnaFilaMas == /\ Len(historial') = Len(historial) + 1
              /\ \A i \in 1..Len(historial) : historial'[i] = historial[i]

\* C1: in every state reached by calls of registrar_ingreso and
\* registrar_salida no two rows of vehiculos carry the same plate.
C1_UnActivoPorPlaca ==
    \A r1, r2 \in vehiculos : r1.placa = r2.placa => r1 = r2

\* C1 witness: a second ingreso of a plate that is inside has been answered
C1_Witness ==
    /\ ret.op = "registrar_ingreso"
    /\ ret.msg = MsgDuplicada
    /\ Cardinality(vehiculos) = 2

\* C2: registrar_ingreso for a plate that has an active stay fails with the
\* duplicate message whatever class is passed (valid, other than the stored
\* one, or invalid) and leaves vehiculos and historial as they were.
C2_DuplicadoSiempreFalla ==
    [][\A placa \in Placas, fecha \in Fechas, hm \in HorasEntrada,
          tipo \in Tipos, usuario \in Usuarios :
          (/\ TieneActivo(placa)
           /\ ret'.op = "registrar_ingreso"
           /\ RegistrarIngreso(placa, fecha, hm[1], hm[2], tipo, usuario))
          => /\ ret'.ok = FALSE
             /\ ret'.raised = ""
             /\ ret'.msg = MsgDuplicada
             /\ vehiculos' = vehiculos
             /\ historial' = historial]_vars

\* C2 witness: the duplicate answer, with the stay still in place
C2_Witness ==
    /\ ret.op = "registrar_ingreso"
    /\ ~ret.ok
    /\ ret.msg = MsgDuplicada
    /\ \E r \in vehiculos : r.tipo = Moto

\* C3: registrar_salida for a plate without an active stay answers "not
\* found" and adds no row to historial; a successful registrar_salida leaves
\* its plate without an active stay and adds exactly one row, so a second
\* call for the plate is such a call.
C3_SalidaSinActivo ==
    [][\A placa \in Placas, fecha \in Fechas, hm \in HorasSalida, usuario \in Usuarios :
          (/\ ret'.op = "registrar_salida"
           /\ RegistrarSalida(placa, fecha, hm[1], hm[2], usuario))
          => /\ ~TieneActivo(placa)
                  => /\ ret'.ok = FALSE
                     /\ ret'.raised = ""
                     /\ ret'.msg = MsgNoEncontrado
                     /\ historial' = historial
                     /\ vehiculos' = vehiculos
             /\ ret'.ok
                  => /\ \A r \in vehiculos' : r.placa # placa
                     /\ UnaFilaMas]_vars

\* C3 witness: "not found" answered after a visit was recorded and with no
\* vehicle inside
C3_Witness ==
    /\ ret.op = "registrar_salida"
    /\ ret.msg = MsgNoEncontrado
    /\ Len(historial) = 1
    /\ vehiculos = {}

\* C4: a successful registrar_salida appends exactly one row carrying the
\* plate, the class and entry instant of the active row, the exit instant
\* given, the duration and charge it returns and the user, and removes the
\* active row of that plate and of no other plate.
C4_SalidaRegistra ==
    [][\A placa \in Placas, fecha \in Fechas, hm \in HorasSalida, usuario \in Usuarios :
          (/\ ret'.op = "registrar_salida"
           /\ ret'.ok
           /\ RegistrarSalida(placa, fecha, hm[1], hm[2], usuario))
          => \E f \in vehiculos :
               /\ f.placa = placa
               /\ vehiculos' = vehiculos \ {f}
               /\ UnaFilaMas
               /\ LET n == historial'[Len(historial')]
                  IN  /\ n.placa = placa
                      /\ n.tipo = f.tipo
                      /\ n.fecha_entrada = f.fecha_entrada
                      /\ n.hora_entrada = f.hora_entrada
                      /\ n.minuto_entrada = f.minuto_entrada
                      /\ n.fecha_salida = fecha
                      /\ n.hora_salida = hm[1]
                      /\ n.minuto_salida = hm[2]
                      /\ n.duracion_horas = ret'.data.duracion
                      /\ n.valor_pagado = ret'.data.valor
                      /\ n.usuario_registro = usuario]_vars

\* C4 witness: an exit was recorded while another vehicle stays inside
C4_Witness ==
    /\ ret.op = "registrar_salida"
    /\ ret.ok
    /\ Len(historial) = 1
    /\ \E r \in vehiculos : r.placa # historial[1].placa

\* the active row the stepwise call read is still committed
EstanciaPresente == fila.f \in vehiculos

\* the visit of the stepwise call is committed
VisitaPresente ==
    \E i \in (fila.hlen + 1)..Len(historial) :
        /\ historial[i].placa = fila.placa
        /\ historial[i].fecha_entrada = fila.f.fecha_entrada
        /\ historial[i].hora_entrada = fila.f.hora_entrada
        /\ historial[i].minuto_entrada = fila.f.minuto_entrada

\* C5: while registrar_salida runs, a reader of the committed database sees
\* the active row and not the visit up to the commit, and the visit and not
\* the active row from the commit on: never both, never neither.
C5_SalidaAtomica ==
    [][/\ pc' \in {"calculado", "insertado", "borrado"}
            => (EstanciaPresente' /\ ~VisitaPresente')
       /\ (pc = "borrado" /\ pc' = "confirmado")
            => (~EstanciaPresente' /\ VisitaPresente')]_vars

\* C5 witness: both statements executed and not yet committed
C5_Witness ==
    /\ pc = "borrado"
    /\ Len(tx) = 2

C7_SinExcepciones == ret.raised = ""

\* C8: every row of historial has a duration >= 0.
C8_DuracionNoNegativa ==
    \A i \in 1..Len(historial) : historial[i].duracion_horas >= 0

\* arguments of the pending or finished call of calcular_duracion
DurEntrada == Combine(call.args[1], call.args[2], call.args[3])
DurSalida == Combine(call.args[4], call.args[5], call.args[6])

\* c hundredths is the value of n / 60 rounded to two decimals
EsRedondeo(c, n) == (60 * c - 100 * n <= 30) /\ (100 * n - 60 * c <= 30)

\* C9: when the exit instant is earlier than the entry instant the result is
\* the time from the entry to the exit instant one calendar day later, on
\* every date.
C9_Rollover ==
    (call.done /\ DurSalida < DurEntrada)
    => /\ call.out.ok
       /\ EsRedondeo(call.out.val, DurSalida + 1440 - DurEntrada)

\* C10: when the exit instant is not earlier than the entry instant the
\* result is the elapsed minutes divided by 60, rounded to two decimals.
C10_Duracion ==
    (call.done /\ DurSalida >= DurEntrada)
    => /\ call.out.ok
       /\ EsRedondeo(call.out.val, DurSalida - DurEntrada)

\* C10 witness: an exit on a later date whose hours are not a whole number
\* of hundredths
C10_Witness ==
    /\ call.done
    /\ call.args[1] # call.args[4]
    /\ DurSalida > DurEntrada
    /\ (DurSalida - DurEntrada) % 3 # 0
    /\ call.out.ok

\* the rate pairs the finished call of obtener_tarifa or calcular_valor may
\* have resolved
ParesResueltos ==
    {r.val : r \in {x \in ObtenerTarifaResultado(tarifas, call.args[1], call.args[3],
                                                  call.args[4], call.args[5]) : x.ok}}

\* the charge by bands for a duration of dur hundredths of an hour under
\* the hourly rate th and the fraction rate tf
CargoPorBandas(th, tf, dur) ==
    LET w == dur \div 100
        f == dur % 100
    IN  w * th + (IF f = 0 THEN 0
                  ELSE IF f <= 25 THEN tf
                  ELSE IF f <= 50 THEN 2 * tf
                  ELSE IF f <= 75 THEN 3 * tf
                  ELSE th)

\* C11: for a duration with whole part w and remainder f and the resolved
\* rates (th, tf), calcular_valor returns w*th plus 0 if f = 0, tf if
\* 0 < f <= 0.25, 2*tf if 0.25 < f <= 0.5, 3*tf if 0.5 < f <= 0.75 and th if
\* f > 0.75; under 3000/750 it returns 6750 for 2.10 h, 7500 for 2.30 h and
\* 9000 for 2.80 h.
C11_CobroPorBandas ==
    (call.fn = "calcular_valor" /\ call.done /\ ValidDate(call.args[3]))
    => /\ \E p \in ParesResueltos :
             call.out.val = CargoPorBandas(p[1], p[2], call.args[2])
       /\ ParesResueltos = {<<3000, 750>>}
             => /\ call.args[2] = 210 => call.out.val = 6750
                /\ call.args[2] = 230 => call.out.val = 7500
                /\ call.args[2] = 280 => call.out.val = 9000

\* C11 witness: 2.80 h charged under the rates 3000/750
C11_Witness ==
    /\ call.fn = "calcular_valor"
    /\ call.done
    /\ ParesResueltos = {<<3000, 750>>}
    /\ call.args[2] = 280
    /\ call.out.val = 9000

\* the name of the weekday of the date passed to the call
DiaDeLlamada == Dias[Weekday(call.args[3]) + 1]

\* the rows of tarifas that are active, of the class of the call, of the
\* given day and whose hours hora_inicio..hora_fin include the hour of the call
ReglasQueCubren(dia) ==
    {i \in 1..Len(tarifas) :
        /\ tarifas[i].activo = 1
        /\ tarifas[i].tipo_vehiculo = call.args[1]
        /\ tarifas[i].dia_semana = dia
        /\ tarifas[i].hora_inicio <= call.args[4]
        /\ call.args[4] <= tarifas[i].hora_fin}

\* a call of obtener_tarifa that returned with no failure of the engine
TarifaResuelta ==
    /\ call.fn = "obtener_tarifa"
    /\ call.done
    /\ call.args[5] = ""
    /\ ValidDate(call.args[3])

\* C13: when an active rule of the weekday and an active "todos" rule of
\* the class both cover the hour, obtener_tarifa returns the rates of the
\* weekday rule, whichever of the two was stored first.
C13_PrefiereDia ==
    (/\ TarifaResuelta
     /\ ReglasQueCubren(DiaDeLlamada) # {}
     /\ ReglasQueCubren("todos") # {})
    => /\ call.out.ok
       /\ \E i \in ReglasQueCubren(DiaDeLlamada) :
             call.out.val = <<tarifas[i].tarifa_hora, tarifas[i].tarifa_fraccion>>

\* C13 witness: the Tuesday rates returned from a table in which the
\* "todos" rule of the class is stored before the Tuesday rule
C13_Witness ==
    /\ TarifaResuelta
    /\ call.out.ok
    /\ call.out.val = <<3000, 750>>
    /\ \E i \in ReglasQueCubren("todos"), j \in ReglasQueCubren("martes") : i < j

\* C14: obtener_tarifa returns the rates of a rule that is active, of the
\* requested class, of the requested weekday or "todos", and with
\* hora_inicio <= hour <= hora_fin; when there is no such rule it returns
\* 5000/1200 for Carro and 3500/900 for Moto.
C14_ReglaAplicable ==
    TarifaResuelta
    => LET rs == ReglasQueCubren(DiaDeLlamada) \cup ReglasQueCubren("todos")
       IN  /\ call.out.ok
           /\ rs # {} => \E i \in rs :
                 call.out.val = <<tarifas[i].tarifa_hora, tarifas[i].tarifa_fraccion>>
           /\ rs = {} => /\ call.args[1] = Carro => call.out.val = <<5000, 1200>>
                         /\ call.args[1] = Moto => call.out.val = <<3500, 900>>

\* C14 witness: the hardcoded pair returned for a car while the only car
\* rule of the table is switched off
C14_Witness ==
    /\ TarifaResuelta
    /\ call.args[1] = Carro
    /\ \E i \in 1..Len(tarifas) :
          tarifas[i].tipo_vehiculo = Carro /\ tarifas[i].activo = 0
    /\ call.out.val = <<5000, 1200>>

\* C16: a call of obtener_tarifa leaves the tables tarifas, vehiculos and
\* historial as it found them, an empty tarifas included.
C16_ResolverSinEfectos ==
    [][(call'.fn = "obtener_tarifa" /\ ~call.done /\ call'.done)
          => /\ tarifas' = tarifas
             /\ vehiculos' = vehiculos
             /\ historial' = historial]_vars

\* the call met a failure of the engine: at conectar(), or at the query,
\* which is reached once strptime has accepted the date
LecturaFallida ==
    \/ call.args[5] = "conectar"
    \/ call.args[5] = "execute" /\ ValidDate(call.args[3])

\* C17: when the engine fails during obtener_tarifa the call returns
\* 5000/1200 for Carro and 3500/900 for Moto instead of raising, and
\* calcular_valor returns the charge by bands under that pair.
C17_LecturaFallidaDaPorDefecto ==
    (call.done /\ LecturaFallida)
    => LET par == IF call.args[1] = Carro THEN <<5000, 1200>> ELSE <<3500, 900>>
       IN  /\ call.out.ok
           /\ call.fn = "obtener_tarifa" => call.out.val = par
           /\ call.fn = "calcular_valor"
                 => call.out.val = CargoPorBandas(par[1], par[2], call.args[2])

\* C17 witness: the query failed on a Tuesday at 8 although the table holds
\* the Tuesday rule of the class, and 2.80 h were charged by the hardcoded pair
C17_Witness ==
    /\ call.fn = "calcular_valor"
    /\ call.done
    /\ call.args = <<Carro, 280, <<2024, 1, 30>>, 8, "execute">>
    /\ \E i \in 1..Len(tarifas) : tarifas[i] = ReglaMartes
    /\ call.out.val = 15000

\* C18: calcular_valor returns the simplified charge (5000 per hour for
\* Carro, 3500 for Moto, times the duration) only when the resolution of
\* the rates raised; with a date of the calendar it returns the charge by
\* bands under a resolved pair.
C18_SimplificadoSoloPorError ==
    (call.fn = "calcular_valor" /\ call.done)
    => (call.out.val \notin {CargoPorBandas(p[1], p[2], call.args[2]) : p \in ParesResueltos}
        => /\ ~ValidDate(call.args[3])
           /\ call.args[5] # "conectar"
           /\ call.out.val = (IF call.args[1] = Carro THEN 50 ELSE 35) * call.args[2])

\* C18 witness: 2.10 h of a car under a text that is not a date: 10500 by
\* the simplified computation, where the bands give 11200
C18_Witness ==
    /\ call.fn = "calcular_valor"
    /\ call.done
    /\ call.args[1] = Carro
    /\ call.args[2] = 210
    /\ ~ValidDate(call.args[3])
    /\ call.out.val = 10500

\* C12: the charge a successful registrar_salida records is the charge of
\* the recorded duration under the rates resolved for the class, the entry
\* date and the entry hour of the stay, whichever rule holds at the exit
\* date and hour; so stays of equal class, entry and duration are charged
\* the same.
C12_TarifaDeEntrada ==
    [][/\ \A placa \in Placas, fecha \in Fechas, hm \in HorasSalida, usuario \in Usuarios :
            (/\ ret'.op = "registrar_salida"
             /\ ret'.ok
             /\ RegistrarSalida(placa, fecha, hm[1], hm[2], usuario))
            => \E f \in vehiculos :
                 /\ f.placa = placa
                 /\ LET n == historial'[Len(historial')]
                    IN  n.valor_pagado \in
                          {calcular_valor(p, n.duracion_horas) :
                              p \in obtener_tarifa(tarifas', f.tipo, f.fecha_entrada,
                                                   f.hora_entrada)}
       /\ \A i, j \in 1..Len(historial') :
            (/\ historial'[i].tipo = historial'[j].tipo
             /\ historial'[i].fecha_entrada = historial'[j].fecha_entrada
             /\ historial'[i].hora_entrada = historial'[j].hora_entrada
             /\ historial'[i].minuto_entrada = historial'[j].minuto_entrada
             /\ historial'[i].duracion_horas = historial'[j].duracion_horas)
            => historial'[i].valor_pagado = historial'[j].valor_pagado]_vars

\* C12 witness: a car that entered on Tuesday at 23:30 and left on
\* Wednesday at 0:15 paid 3600 by the "todos" rates, while the table holds
\* the Wednesday rule under which the same time costs 4500
C12_Witness ==
    /\ \E i \in 1..Len(tarifas) : tarifas[i].dia_semana = "miercoles"
    /\ \E i \in 1..Len(historial) :
          /\ historial[i].tipo = Carro
          /\ historial[i].fecha_entrada = <<2024, 1, 30>>
          /\ historial[i].fecha_salida = <<2024, 1, 31>>
          /\ historial[i].duracion_horas = 75
          /\ historial[i].valor_pagado = 3600

\* the class passed is none of Carro and Moto in any spelling of case
ClaseAjena(tipo) ==
    \A k \in {Carro, Moto} :
        [i \in 1..Len(k) |-> UpperChar(k[i])] # [i \in 1..Len(tipo) |-> UpperChar(tipo[i])]

\* C15: a call of registrar_ingreso with a plate of invalid format or a
\* class other than Carro and Moto answers with the message of its
\* validation, never with that of a failure of the engine, and has neither
\* read nor written the tables when it answers.
C15_ValidaAntesDeAlmacenar ==
    [][\A placa \in Placas, fecha \in Fechas, hm \in HorasEntrada, tipo \in Tipos,
          usuario \in Usuarios, falla \in FallasIngreso \cup {""}, causa \in Causas :
          (/\ ret'.op = "registrar_ingreso"
           /\ ~validar_placa(placa) \/ ClaseAjena(tipo)
           /\ RegistrarIngresoCon(placa, fecha, hm[1], hm[2], tipo, usuario, falla, causa))
          => /\ ret'.msg \in {MsgPlacaInvalida, MsgTipoInvalido}
             /\ vehiculos' = vehiculos
             /\ historial' = historial
             /\ tarifas' = tarifas]_vars

\* C19: a call of registrar_ingreso or registrar_salida in which the
\* engine fails returns failure with the message of the engine and leaves
\* the committed tables as they were, whichever statement failed.
C19_FalloSinEfecto ==
    [][/\ \A placa \in Placas, fecha \in Fechas, hm \in HorasEntrada, tipo \in Tipos,
            usuario \in Usuarios, falla \in FallasIngreso, causa \in Causas :
            (/\ ret'.op = "registrar_ingreso"
             /\ ret'.msg = MsgErrorBD(causa)
             /\ RegistrarIngresoCon(placa, fecha, hm[1], hm[2], tipo, usuario, falla, causa))
            => /\ ~ret'.ok
               /\ ret'.raised = ""
               /\ vehiculos' = vehiculos
               /\ historial' = historial
               /\ tarifas' = tarifas
       /\ \A placa \in Placas, fecha \in Fechas, hm \in HorasSalida, usuario \in Usuarios,
            falla \in {"conectar", "select", "insert", "delete", "commit"},
            causa \in Causas :
            (/\ ret'.op = "registrar_salida"
             /\ ret'.msg = MsgErrorBD(causa)
             /\ RegistrarSalidaCon(placa, fecha, hm[1], hm[2], usuario, falla, causa))
            => /\ ~ret'.ok
               /\ ret'.raised = ""
               /\ vehiculos' = vehiculos
               /\ historial' = historial
               /\ tarifas' = tarifas]_vars

\* the classes offered to registrar_ingreso that are none of Carro and Moto
TiposAjenos == {t \in Tipos : ClaseAjena(t)}

MismaSinCaja(a, b) ==
    /\ Len(a) = Len(b)
    /\ \A i \in 1..Len(a) : UpperChar(a[i]) = UpperChar(b[i])

\* C21: the plate key of an active stay is unique and case-normalized: an
\* entry for a plate that differs only in letter case from the plate of an
\* active stay fails as a duplicate and adds nothing, and an exit finds the
\* active stay under any letter-case spelling of its plate.
C21_ClaveSinCaja ==
    [][ /\ ret'.op = "registrar_ingreso" =>
            \A placa \in PlacasEscritas, fecha \in EscFechasEntrada, hm \in HorasEntrada :
               ( /\ \E r \in vehiculos : MismaSinCaja(r.placa, placa)
                 /\ RegistrarIngreso(placa, fecha, hm[1], hm[2], Carro, "sistema") )
               => /\ ret' = Retorno("registrar_ingreso", FALSE, MsgDuplicada, <<>>)
                  /\ vehiculos' = vehiculos
        /\ ret'.op = "registrar_salida" =>
            \A placa \in PlacasEscritas, fecha \in EscFechasSalida, hm \in HorasSalida :
               ( /\ \E r \in vehiculos : MismaSinCaja(r.placa, placa)
                 /\ RegistrarSalida(placa, fecha, hm[1], hm[2], "sistema") )
               => ret'.msg # MsgNoEncontrado
      ]_vars

\* C22: an entry fails with the invalid-plate message, adding no active
\* stay, exactly when the plate is empty or its length is outside 5..7;
\* every plate of 5 to 7 characters passes, whatever the characters.
C22_SoloLongitud ==
    [][ ret'.op = "registrar_ingreso" =>
          \A placa \in PlacasEscritas, fecha \in EscFechasEntrada, hm \in HorasEntrada :
             RegistrarIngreso(placa, fecha, hm[1], hm[2], Carro, "sistema") =>
                /\ (ret'.msg = MsgPlacaInvalida) <=> (Len(placa) \notin 5..7)
                /\ Len(placa) \notin 5..7 => ~ret'.ok /\ vehiculos' = vehiculos
                /\ (Len(placa) \in 5..7 /\ ~TieneActivo(placa)) =>
                       ret'.ok /\ TieneActivo(placa)'
      ]_vars

\* a plate of signs and blanks has an active stay, and an entry has just
\* been refused for its plate
C22_Witness ==
    /\ ret.op = "registrar_ingreso"
    /\ ret.msg = MsgPlacaInvalida
    /\ TieneActivo(<<" ", "?", "-", "*", "#">>)
    /\ TieneActivo(<<"A", "B", "C", "1", "2", "3", "4">>)

(***************************************************************************)
(* Queries.                                                                *)
(***************************************************************************)
\* a row of historial as obtener_historial lists it
VisitaListada(r) ==
    <<r.placa, r.tipo, r.fecha_entrada, r.hora_entrada, r.minuto_entrada,
      r.fecha_salida, r.hora_salida, r.minuto_salida, r.duracion_horas,
      r.valor_pagado>>

\* the rows of historial with entry date from fi to ff, last created first
RECURSIVE UltimasPrimero(_, _, _)
UltimasPrimero(h, fi, ff) ==
    IF Len(h) = 0 THEN <<>>
    ELSE LET r == h[Len(h)]
             resto == UltimasPrimero(SubSeq(h, 1, Len(h) - 1), fi, ff)
         IN  IF FechaLeq(fi, r.fecha_entrada) /\ FechaLeq(r.fecha_entrada, ff)
             THEN <<VisitaListada(r)>> \o resto
             ELSE resto

\* C23: a history query with a date range returns exactly the visits whose
\* entry date lies between the two bounds, both included, whatever their
\* exit date, the most recently created first, also among visits created
\* within the same second.
C23_RangoYOrden ==
    [][ ret'.op = "obtener_historial" =>
          \A fi \in ConsFiltrosInicio \ {None}, ff \in ConsFiltrosFin \ {None} :
             ObtenerHistorial(None, None, fi, ff) =>
                ret'.data = UltimasPrimero(historial, fi, ff)
      ]_vars

\* text f occurs in text s
EsSubcadena(f, s) ==
    \E i \in 1..(Len(s) - Len(f) + 1) : SubSeq(s, i, i + Len(f) - 1) = f

\* C24: a history query with a plate filter returns exactly the visits
\* whose plate contains the filter as a substring, for every filter.
C24_FiltroSubcadena ==
    [][ ret'.op = "obtener_historial" =>
          \A fp \in ConsFiltrosPlaca \ {None} :
             ObtenerHistorial(fp, None, None, None) =>
                {ret'.data[i] : i \in 1..Len(ret'.data)} =
                {VisitaListada(historial[i]) :
                    i \in {j \in 1..Len(historial) : EsSubcadena(fp, historial[j].placa)}}
      ]_vars

\* the entry instant of a listed active row
InstanteListado(t) == Combine(t[3], t[4], t[5])

\* C25: the listing of active stays holds every active stay exactly once,
\* in ascending order of entry date, hour and minute.
C25_ActivosEnOrden ==
    [][ ObtenerVehiculosActivos =>
          LET d == ret'.data IN
          /\ Len(d) = Cardinality(vehiculos)
          /\ \A r \in vehiculos :
                \E i \in 1..Len(d) :
                   d[i] = <<r.placa, r.tipo, r.fecha_entrada, r.hora_entrada,
                            r.minuto_entrada>>
          /\ \A i, j \in 1..Len(d) :
                i < j => InstanteListado(d[i]) <= InstanteListado(d[j])
      ]_vars

\* three stays are listed: the first two on one date with the later minute
\* first, the third on a later date with an earlier hour than the second
C25_Witness ==
    /\ ret.op = "obtener_vehiculos_activos"
    /\ Len(ret.data) = 3
    /\ ret.data[1][3] = ret.data[2][3]
    /\ ret.data[1][5] > ret.data[2][5]
    /\ ret.data[2][3] # ret.data[3][3]
    /\ ret.data[2][4] > ret.data[3][4]
    /\ Cardinality(vehiculos) = 3

(***************************************************************************)
(* Two exits of one stay.                                                  *)
(***************************************************************************)
\* the visits of the plate of the exit under way created since it read its
\* active row, in table h
VisitasDesdeLectura(h) ==
    {i \in (fila.hlen + 1)..Len(h) : h[i].placa = fila.placa}

\* C26: when two exits of the same plate interleave, each a read of the
\* active stay followed later by its insert, delete and commit, exactly one
\* completed visit is created and at most one of the calls reports success.
C26_UnaSolaSalida ==
    [][ /\ SalidaCommit => Cardinality(VisitasDesdeLectura(historial')) = 1
        /\ SalidaReturn => Cardinality(VisitasDesdeLectura(historial)) = 1
      ]_vars

(***************************************************************************)
(* Conservation of stays, and what an exit returns.                        *)
(***************************************************************************)
\* completed visits of a plate in table h, plus one if it has a row in v
Saldo(placa, v, h) ==
    Cardinality({i \in 1..Len(h) : h[i].placa = placa})
        + (IF \E r \in v : r.placa = placa THEN 1 ELSE 0)

\* the step is a successful entry of the plate
IngresoLogrado(placa) ==
    /\ ret'.op = "registrar_ingreso"
    /\ ret'.ok
    /\ \E fecha \in Fechas, hm \in HorasEntrada, tipo \in Tipos :
          RegistrarIngreso(placa, fecha, hm[1], hm[2], tipo, "sistema")

\* C27: under calls made one after another, for each plate the number of
\* successful entries equals its completed visits plus one if it is
\* inside.  Both sides are 0 on the new database, and every step adds to
\* the right side exactly what it adds to the left: one for a successful
\* entry of the plate, nothing otherwise.
C27_Conservacion ==
    [][ \A placa \in Placas :
          Saldo(placa, vehiculos', historial') =
          Saldo(placa, vehiculos, historial)
              + (IF IngresoLogrado(placa) THEN 1 ELSE 0)
      ]_vars

\* a plate with a completed visit is inside again: two successful entries
C27_Witness ==
    /\ Len(historial) = 1
    /\ TieneActivo(historial[1].placa)
    /\ Saldo(historial[1].placa, vehiculos, historial) = 2

\* C30: a successful exit returns the duration, the charge and the class
\* that it stored in the new visit, and the exit date, hour and minute it
\* stores and returns are the ones supplied, also when the duration was
\* computed from the instant moved to the next day.
C30_DevuelveLoGuardado ==
    [][ (ret'.op = "registrar_salida" /\ ret'.ok) =>
          \A placa \in Placas, fecha \in Fechas, hm \in HorasSalida :
             RegistrarSalida(placa, fecha, hm[1], hm[2], "sistema") =>
                LET n == historial'[Len(historial')] IN
                /\ Len(historial') = Len(historial) + 1
                /\ ret'.data.duracion = n.duracion_horas
                /\ ret'.data.valor = n.valor_pagado
                /\ ret'.data.tipo = n.tipo
                /\ ret'.data.salida = <<fecha, hm[1], hm[2]>>
                /\ <<n.fecha_salida, n.hora_salida, n.minuto_salida>> =
                      <<fecha, hm[1], hm[2]>>
      ]_vars

\* an exit at 00:15 of the date of the entry at 23:30 was recorded: the
\* visit and the answer carry that date
C30_Witness ==
    /\ ret.op = "registrar_salida"
    /\ ret.ok
    /\ Len(historial) > 0
    /\ LET n == historial[Len(historial)] IN
       /\ n.fecha_salida = n.fecha_entrada
       /\ n.hora_salida < n.hora_entrada
       /\ n.duracion_horas = 75
       /\ ret.data.salida = <<n.fecha_entrada, n.hora_salida, n.minuto_salida>>

(***************************************************************************)
(* Charge by minutes, and growth of the charge.                            *)
(***************************************************************************)
\* the charge of n minutes at hourly rate th and fraction rate tf, by the
\* band of the minutes over the whole hours
CargoPorMinutos(th, tf, n) ==
    LET m == n % 60
    IN  (n \div 60) * th
          + (IF m = 0 THEN 0
             ELSE IF m <= 15 THEN tf
             ELSE IF m <= 30 THEN 2 * tf
             ELSE IF m <= 45 THEN 3 * tf
             ELSE th)

\* C28: rounding the duration to two decimals never moves a stay into
\* another band than its exact minutes: a stay of H hours and M minutes is
\* charged H whole hours plus nothing for M = 0, the fraction rate for
\* 1..15, twice for 16..30, three times for 31..45 and the hourly rate for
\* 46..59.
C28_BandaPorMinutos ==
    (call.fn = "cobro_de_estancia" /\ call.done /\ DurSalida >= DurEntrada)
    => /\ call.out.ok
       /\ call.out.dur \div 100 = (DurSalida - DurEntrada) \div 60
       /\ call.out.val =
             CargoPorMinutos(TarifaFija(call.args[7])[1], TarifaFija(call.args[7])[2],
                             DurSalida - DurEntrada)

\* a car stayed more than a day and 45 minutes over the hour
C28_Witness ==
    /\ call.fn = "cobro_de_estancia"
    /\ call.done
    /\ DurSalida - DurEntrada > 1440
    /\ (DurSalida - DurEntrada) % 60 = 45
    /\ call.args[7] = Carro
    /\ call.out.ok
    /\ call.out.val = ((DurSalida - DurEntrada) \div 60) * 5000 + 3600

\* C29: over the seeded tariffs the charge never decreases when the
\* duration grows (same class, same entry date and hour), and a duration
\* of 0 is charged 0.
C29_CobroMonotono ==
    ( /\ call.fn = "calcular_valor"
      /\ call.done
      /\ call.args[5] = ""
      /\ tarifas = TarifasPorDefecto )
    => /\ \A d \in 0..call.args[2] :
             \A v \in CalcularValorResultado(tarifas, call.args[1], d, call.args[3],
                                              call.args[4], "") :
                v <= call.out.val
       /\ call.args[2] = 0 => call.out.val = 0

\* a car of one hour and a quarter is charged over the seeded tariffs
C29_Witness ==
    /\ call.fn = "calcular_valor"
    /\ call.done
    /\ call.args[5] = ""
    /\ tarifas = TarifasPorDefecto
    /\ call.args[1] = Carro
    /\ call.args[2] = 125
    /\ call.out.val = 6200

====
